---- MODULE Spec2Model ----
(***************************************************************************)
(* PDF text stamper (src/app.py): the page-range parser parse_pages, the   *)
(* coordinate mapping between document units and preview pixels, and the   *)
(* Streamlit script as a state machine over st.session_state, one step per *)
(* script run.                                                             *)
(*                                                                         *)
(* A Python str is a sequence of one-character strings.                    *)
(***************************************************************************)
EXTENDS Integers, Sequences, FiniteSets, TLC

(* ------------------------------ bounds --------------------------------- *)
\* longest page-range text enumerated
MaxLen == 4
\* largest page count of an uploaded document
MaxTotal == 3

\* the characters page-range texts are built from
Chars == {"0", "1", "2", "-", ",", " ", "a"}

(* ------------------------- Python str helpers -------------------------- *)
\* characters str.strip() and int() treat as whitespace
Whitespace == {" ", "\t", "\n", "\r"}

Digits == {"0", "1", "2", "3", "4", "5", "6", "7", "8", "9"}

DigitVal(c) ==
  CASE c = "0" -> 0 [] c = "1" -> 1 [] c = "2" -> 2 [] c = "3" -> 3
    [] c = "4" -> 4 [] c = "5" -> 5 [] c = "6" -> 6 [] c = "7" -> 7
    [] c = "8" -> 8 [] c = "9" -> 9

RECURSIVE lstrip(_)
lstrip(s) ==
  IF s # <<>> /\ Head(s) \in Whitespace THEN lstrip(Tail(s)) ELSE s

RECURSIVE rstrip(_)
rstrip(s) ==
  IF s # <<>> /\ s[Len(s)] \in Whitespace
    THEN rstrip(SubSeq(s, 1, Len(s) - 1))
    ELSE s

\* str.strip()
strip(s) == rstrip(lstrip(s))

\* `c in s`
Contains(s, c) == \E i \in 1..Len(s) : s[i] = c

\* index of the first occurrence of c in s, 0 when there is none
RECURSIVE FindFrom(_, _, _)
FindFrom(s, c, i) ==
  IF i > Len(s) THEN 0
  ELSE IF s[i] = c THEN i
  ELSE FindFrom(s, c, i + 1)

\* str.split(c): the pieces between the occurrences of c
RECURSIVE split(_, _)
split(s, c) ==
  LET i == FindFrom(s, c, 1) IN
  IF i = 0 THEN << s >>
  ELSE << SubSeq(s, 1, i - 1) >> \o split(SubSeq(s, i + 1, Len(s)), c)

\* str.split(c, 1): the text before and after the first c (c occurs in s)
split1(s, c) ==
  LET i == FindFrom(s, c, 1) IN
  << SubSeq(s, 1, i - 1), SubSeq(s, i + 1, Len(s)) >>

\* the value of a digit string in which single underscores may separate digits
RECURSIVE DigitsValue(_, _)
DigitsValue(s, acc) ==
  IF s = <<>> THEN acc
  ELSE IF Head(s) = "_" THEN DigitsValue(Tail(s), acc)
  ELSE DigitsValue(Tail(s), 10 * acc + DigitVal(Head(s)))

\* the digit part int() accepts: digits, with single underscores between them
IsDigitBody(s) ==
  /\ s # <<>>
  /\ \A i \in 1..Len(s) : s[i] \in Digits \cup {"_"}
  /\ s[1] \in Digits
  /\ s[Len(s)] \in Digits
  /\ \A i \in 1..(Len(s) - 1) : ~(s[i] = "_" /\ s[i + 1] = "_")

\* int(s): surrounding whitespace dropped, an optional sign, then the digits;
\* anything else raises ValueError (ok = FALSE)
int(s) ==
  LET t == strip(s)
      signed == t # <<>> /\ Head(t) \in {"+", "-"}
      body == IF signed THEN Tail(t) ELSE t
  IN IF IsDigitBody(body)
       THEN [ok |-> TRUE,
             val |-> IF signed /\ Head(t) = "-"
                       THEN 0 - DigitsValue(body, 0)
                       ELSE DigitsValue(body, 0)]
       ELSE [ok |-> FALSE, val |-> 0]

Max2(a, b) == IF a >= b THEN a ELSE b
Min2(a, b) == IF a <= b THEN a ELSE b

\* sorted(S) of a finite set of integers
RECURSIVE sorted(_)
sorted(S) ==
  IF S = {} THEN <<>>
  ELSE LET m == CHOOSE x \in S : \A y \in S : x <= y
       IN << m >> \o sorted(S \ {m})

\* list(range(n))
range_list(n) == [i \in 1..n |-> i - 1]

(* ----------------------------- parse_pages ----------------------------- *)
\* variant: only `not text`, whitespace-only text not recognised
is_blank_no_strip(text) == text = <<>>

\* `not text or not text.strip()`
is_blank(text) == text = <<>> \/ strip(text) = <<>>

\* variant: the pair is never swapped
swap_never(a, b) == << a, b >>

\* `if a > b: a, b = b, a`
swap(a, b) == IF a > b THEN << b, a >> ELSE << a, b >>

\* variant: b is not lowered to total
clamp_low_only(a, b, total) == << Max2(1, a), b >>

\* `a = max(1, a); b = min(total, b)`
clamp(a, b, total) == << Max2(1, a), Min2(total, b) >>

\* the outcome of a piece of the loop body: how control leaves it
\* ("continue" with the next segment, "break" out of the loop, or "raise"
\* for an exception on its way out) and the set `out` after it
Outcome(ctl, out) == [ctl |-> ctl, out |-> out]

\* variant: the handler leaves the loop instead of going on
except_ValueError_break(r) ==
  IF r.ctl = "raise" THEN Outcome("break", r.out) ELSE r

\* `except ValueError: continue`, applied to the outcome of the try block
except_ValueError(r) ==
  IF r.ctl = "raise" THEN Outcome("continue", r.out) ELSE r

\* the try block of the branch `if "-" in part`, part already stripped
range_try(part, total, out) ==
  LET ab == split1(part, "-")
      a == int(ab[1])
      b == int(ab[2])
  IN IF ~a.ok \/ ~b.ok
       THEN Outcome("raise", out)
       ELSE LET sw == swap(a.val, b.val)
                cl == clamp(sw[1], sw[2], total)
            IN Outcome("continue", out \cup (cl[1]..cl[2]))

\* the try block of the branch of a single page number
single_try(part, total, out) ==
  LET n == int(part)
  IN IF ~n.ok
       THEN Outcome("raise", out)
       ELSE IF 1 <= n.val /\ n.val <= total
              THEN Outcome("continue", out \cup {n.val})
              ELSE Outcome("continue", out)

\* the body of `for part in text.split(",")`
loop_body(rawpart, total, out) ==
  LET part == strip(rawpart)
  IN IF part = <<>> THEN Outcome("continue", out)
     ELSE IF Contains(part, "-")
       THEN except_ValueError(range_try(part, total, out))
     ELSE except_ValueError(single_try(part, total, out))

RECURSIVE for_parts(_, _, _, _)
for_parts(parts, i, total, out) ==
  IF i > Len(parts) THEN Outcome("continue", out)
  ELSE LET r == loop_body(parts[i], total, out)
       IN IF r.ctl = "continue" THEN for_parts(parts, i + 1, total, r.out)
          ELSE r

\* parse_pages(text, total): exc tells whether an exception left the
\* function, ret is the list returned otherwise
parse_pages(text, total) ==
  IF is_blank(text)
    THEN [exc |-> FALSE, ret |-> range_list(total)]
    ELSE LET r == for_parts(split(text, ","), 1, total, {})
         IN IF r.ctl = "raise"
              THEN [exc |-> TRUE, ret |-> <<>>]
              ELSE [exc |-> FALSE, ret |-> sorted({p - 1 : p \in r.out})]

(* ------------------------- coordinate mapping -------------------------- *)
\* zoom = 1.25, kept as the fraction ZoomNum / ZoomDen
ZoomNum == 5
ZoomDen == 4
Zoom == << ZoomNum, ZoomDen >>

\* int(v) of the number v = num/den, den > 0: truncation towards zero
py_int(num, den) ==
  IF num >= 0 THEN num \div den ELSE 0 - ((0 - num) \div den)

\* round(v) of the number v = num/den, den > 0: the nearest integer, a tie
\* going to the even one
py_round(num, den) ==
  LET q == num \div den
      r == num % den
  IN IF 2 * r < den THEN q
     ELSE IF 2 * r > den THEN q + 1
     ELSE IF q % 2 = 0 THEN q
     ELSE q + 1

\* variant: the crosshair at y instead of the baseline y + font_size
crosshair_without_baseline(x, y, font_size, zoom) ==
  << py_int(x * zoom[1], zoom[2]), py_int(y * zoom[1], zoom[2]) >>

\* the centre (cx, cy) of the crosshair drawn in capture mode
crosshair_xy(x, y, font_size, zoom) ==
  << py_int(x * zoom[1], zoom[2]),
     py_int((y + font_size) * zoom[1], zoom[2]) >>

\* variant: without max(0, ...)
use_this_point_unclamped(click, font_size) ==
  << py_round(click[1] * click[3][2], click[3][1]),
     py_round(click[2] * click[3][2], click[3][1]) - font_size >>

\* (new_x, new_y) of `Use This Point`, click = (click_x_px, click_y_px, zoom)
use_this_point(click, font_size) ==
  << Max2(0, py_round(click[1] * click[3][2], click[3][1])),
     Max2(0, py_round(click[2] * click[3][2], click[3][1]) - font_size) >>

(* --------------------- bounds of the script's inputs ------------------- *)
\* the X and Y typed into the settings form are MinXY .. MaxCoord, or the
\* value the field shows
MaxCoord == 0
\* the font sizes of the mapping round trip are MinFontSize .. MinFontSize +
\* MaxMapFontExtra
MaxMapFontExtra == 2
\* the largest pixel coordinate of a click on the preview
MaxPixel == 10
\* largest document coordinate of the mapping round trip
MaxMapCoord == 12

(* -------------------------- program constants -------------------------- *)
DefaultX == 35
DefaultY == 730
DefaultFontSize == 12
\* min_value of the number inputs
MinFontSize == 6
MinXY == 0

\* None, and a value that is present
None == <<>>
Some(v) == << v >>

(* ------------------------------ state ---------------------------------- *)
VARIABLES
  ptext,            \* parse_pages: the argument text
  ptotal,           \* parse_pages: the argument total
  pout,             \* parse_pages: the outcome of the call
  ppc,              \* "call" before parse_pages has run, "done" after it
  mx, my, mfs,      \* mapping: document x, y and font size
  mpix,             \* mapping: the pixel the forward mapping gave
  mdoc,             \* mapping: the document point the inverse mapping gave
  mpc,              \* mapping: "start", "forward", "back"
  x, y,             \* st.session_state.x, .y
  stamp_text,       \* st.session_state.stamp_text
  font_size,        \* st.session_state.font_size
  pages_str,        \* st.session_state.pages_str
  refresh_preview,  \* st.session_state.refresh_preview
  capture_mode,     \* st.session_state.capture_mode
  temp_click,       \* st.session_state.temp_click: None or Some((px, py, zoom))
  last_preview,     \* st.session_state._last_preview: None or Some(image)
  uploaded,         \* the file uploader holds a PDF
  total_pages,      \* len(doc) of the uploaded PDF
  pages,            \* the page selection of the last script run
  coord_value,      \* the value held by the image-coordinates component
  crosshair,        \* the crosshair drawn in the last run, None without one
  export,           \* what the last run exported, None if nothing
  run               \* the last script run: the button that caused it, whether
                    \* it rendered the preview, whether a cached one existed

pvars == << ptext, ptotal, pout, ppc >>
mvars == << mx, my, mfs, mpix, mdoc, mpc >>
svars == << x, y, stamp_text, font_size, pages_str, refresh_preview,
            capture_mode, temp_click, last_preview >>
uvars == << svars, uploaded, total_pages, pages, coord_value, crosshair,
            export, run >>
vars == << pvars, mvars, uvars >>

(* ----------------------- parse_pages on its own ------------------------ *)
RECURSIVE StringsOfLen(_)
StringsOfLen(n) ==
  IF n = 0 THEN { <<>> }
  ELSE { Append(s, c) : s \in StringsOfLen(n - 1), c \in Chars }

\* every text of at most MaxLen characters
Texts == UNION { StringsOfLen(n) : n \in 0..MaxLen }

NoOutcome == [exc |-> FALSE, ret |-> <<>>]

ParseIdle ==
  /\ ptext = <<>>
  /\ ptotal = 0
  /\ pout = NoOutcome
  /\ ppc = "idle"

ParseInit ==
  /\ ptext \in Texts
  /\ ptotal \in 0..MaxTotal
  /\ pout = NoOutcome
  /\ ppc = "call"

\* one call parse_pages(ptext, ptotal)
ParseCall ==
  /\ ppc = "call"
  /\ pout' = parse_pages(ptext, ptotal)
  /\ ppc' = "done"
  /\ UNCHANGED << ptext, ptotal, mvars, uvars >>

(* --------------------- the mapping on its own -------------------------- *)
MapIdle ==
  /\ mx = 0 /\ my = 0 /\ mfs = MinFontSize
  /\ mpix = None /\ mdoc = None
  /\ mpc = "idle"

MapInit ==
  /\ mx \in MinXY..MaxMapCoord
  /\ my \in MinXY..MaxMapCoord
  /\ mfs \in MinFontSize..(MinFontSize + MaxMapFontExtra)
  /\ mpix = None /\ mdoc = None
  /\ mpc = "start"

\* document point -> preview pixel, as for the crosshair
MapForward ==
  /\ mpc = "start"
  /\ mpix' = Some(crosshair_xy(mx, my, mfs, Zoom))
  /\ mpc' = "forward"
  /\ UNCHANGED << mx, my, mfs, mdoc, pvars, uvars >>

\* preview pixel -> document point, as for `Use This Point` on a click at
\* that pixel
MapInverse ==
  /\ mpc = "forward"
  /\ mdoc' = Some(use_this_point(<< mpix[1][1], mpix[1][2], Zoom >>, mfs))
  /\ mpc' = "back"
  /\ UNCHANGED << mx, my, mfs, mpix, pvars, uvars >>

(* ------------------------- the Streamlit script ------------------------ *)
\* The script runs top to bottom once per user interaction; a step is one
\* run.  A button reports a press only in the run the press caused, and only
\* a button the script shows enabled can be pressed.  The image-coordinates
\* component keeps the last click as its value while it is shown and loses
\* it in a run that does not show it.  font_label and color_hex only reach
\* the PDF engine and are left out.

\* the texts typed into the form; the font size typed is MinFontSize or the
\* one the field shows
StampTexts == { <<>>, << "A" >> }
FormPages == { <<>>, << "2" >>, << "a" >>, << "0", ",", "1", "1" >> }
\* the pixels clicked on the preview
ClickPoints == { << px, py >> : px \in {0, MaxPixel}, py \in {0, MaxPixel} }

\* parse_pages(pages_str, total_pages) for every call the script can make,
\* evaluated once
ParsedPages ==
  [ps \in FormPages, n \in 0..MaxTotal |-> parse_pages(ps, n)]

Session ==
  [x |-> x, y |-> y, stamp_text |-> stamp_text, font_size |-> font_size,
   pages_str |-> pages_str, refresh_preview |-> refresh_preview,
   capture_mode |-> capture_mode, temp_click |-> temp_click,
   last_preview |-> last_preview]

\* `if apply_btn:`
on_apply(s, text, size, ps, x_val, y_val) ==
  [s EXCEPT !.stamp_text = text, !.font_size = size, !.pages_str = ps,
            !.x = x_val, !.y = y_val, !.refresh_preview = TRUE]

\* `if upd_prev_btn:`
on_update_preview(s) == [s EXCEPT !.refresh_preview = TRUE]

\* variant: Start Capture leaves temp_click as it is
on_start_capture_keep_click(s) ==
  [s EXCEPT !.capture_mode = TRUE, !.refresh_preview = TRUE]

\* `if st.button("Start Capture"):`
on_start_capture(s) ==
  [s EXCEPT !.capture_mode = TRUE, !.temp_click = None,
            !.refresh_preview = TRUE]

\* `if st.button("Cancel Capture"):`
on_cancel_capture(s) ==
  [s EXCEPT !.capture_mode = FALSE, !.temp_click = None,
            !.refresh_preview = TRUE]

\* `use_btn_disabled`
use_btn_disabled(s) == ~(s.capture_mode /\ s.temp_click # None)

\* `if st.button("Use This Point", disabled=use_btn_disabled):`
on_use_this_point(s) ==
  LET p == use_this_point(s.temp_click[1], s.font_size)
  IN [s EXCEPT !.x = p[1], !.y = p[2], !.capture_mode = FALSE,
               !.refresh_preview = TRUE]

\* variant: no fallback at the call site
select_pages_as_parsed(parsed, total) == parsed

\* the call-site fallback: `if not pages: pages = list(range(total_pages))`
select_pages(parsed, total) ==
  IF parsed = <<>> THEN range_list(total) ELSE parsed

\* the image render_stamped_preview returns: the page, and the text drawn on
\* it at the baseline point when the text is not blank
render_stamped_preview(page_index, text, coords, size) ==
  [page |-> page_index,
   stamp |-> IF strip(text) # <<>>
               THEN Some([text |-> text, size |-> size,
                          at |-> << coords[1], coords[2] + size >>])
               ELSE None]

\* what overlay_copy stamps: the pages copied and the baseline point
overlay_copy(text, coords, sel, size) ==
  [pages |-> sel, text |-> text, size |-> size,
   at |-> << coords[1], coords[2] + size >>]

\* the script from the file uploader to its end, run on the session state
\* the sidebar left (after), with cv the value of the component, up and tp
\* the uploaded document
Main(btn, after, cv, up, tp) ==
  \E s \in { after } :
  /\ uploaded' = up
  /\ total_pages' = tp
  /\ x' = s.x
  /\ y' = s.y
  /\ stamp_text' = s.stamp_text
  /\ font_size' = s.font_size
  /\ pages_str' = s.pages_str
  /\ capture_mode' = s.capture_mode
  /\ IF ~up
       THEN \* st.stop(): nothing below the uploader runs
            /\ refresh_preview' = s.refresh_preview
            /\ temp_click' = s.temp_click
            /\ last_preview' = s.last_preview
            /\ pages' = pages
            /\ coord_value' = None
            /\ crosshair' = None
            /\ export' = None
            /\ run' = [btn |-> btn, rendered |-> FALSE, replaced |-> FALSE]
       ELSE \E sel \in { select_pages(ParsedPages[s.pages_str, tp].ret, tp) } :
            \* pages[0] raises IndexError on an empty selection; the except
            \* of the preview block catches it, the flag stays set
            LET failed == s.refresh_preview /\ sel = <<>>
                render == s.refresh_preview /\ sel # <<>>
                img == IF render
                         THEN Some(render_stamped_preview(
                                sel[1], s.stamp_text, << s.x, s.y >>,
                                s.font_size))
                         ELSE s.last_preview
                capturing == ~failed /\ s.capture_mode /\ img # None
                result == IF capturing THEN cv ELSE None
            IN /\ refresh_preview' = (IF render THEN FALSE ELSE s.refresh_preview)
               /\ last_preview' = img
               /\ temp_click' = (IF result # None
                                   THEN Some(<< result[1][1], result[1][2], Zoom >>)
                                   ELSE s.temp_click)
               /\ pages' = sel
               /\ coord_value' = result
               /\ crosshair' = (IF capturing
                                  THEN Some(crosshair_xy(s.x, s.y, s.font_size, Zoom))
                                  ELSE None)
               /\ export' = (IF btn = "Export" /\ strip(s.stamp_text) # <<>>
                               THEN Some(overlay_copy(s.stamp_text, << s.x, s.y >>,
                                                      sel, s.font_size))
                               ELSE None)
               /\ run' = [btn |-> btn, rendered |-> render,
                          replaced |-> render /\ s.last_preview # None]

UIIdle ==
  /\ x = DefaultX /\ y = DefaultY
  /\ stamp_text = <<>>
  /\ font_size = DefaultFontSize
  /\ pages_str = <<>>
  /\ refresh_preview = TRUE
  /\ capture_mode = FALSE
  /\ temp_click = None
  /\ last_preview = None
  /\ uploaded = FALSE
  /\ total_pages = 0
  /\ pages = <<>>
  /\ coord_value = None
  /\ crosshair = None
  /\ export = None
  /\ run = [btn |-> "first load", rendered |-> FALSE, replaced |-> FALSE]

\* the session after the first run of the script, no PDF uploaded yet
UIInit == UIIdle

\* a PDF is put into the uploader
Upload ==
  /\ ~uploaded
  /\ \E n \in 0..MaxTotal : Main("upload", Session, coord_value, TRUE, n)
  /\ UNCHANGED << pvars, mvars >>

\* a run no button caused (the app's rerun command)
Rerun ==
  /\ Main("rerun", Session, coord_value, uploaded, total_pages)
  /\ UNCHANGED << pvars, mvars >>

ApplySettings ==
  /\ \E text \in StampTexts \cup {stamp_text},
        size \in {MinFontSize, font_size},
        ps \in FormPages,
        x_val \in (MinXY..MaxCoord) \cup {x},
        y_val \in (MinXY..MaxCoord) \cup {y} :
       Main("Apply Settings", on_apply(Session, text, size, ps, x_val, y_val),
            coord_value, uploaded, total_pages)
  /\ UNCHANGED << pvars, mvars >>

UpdatePreview ==
  /\ Main("Update Preview", on_update_preview(Session), coord_value,
          uploaded, total_pages)
  /\ UNCHANGED << pvars, mvars >>

StartCapture ==
  /\ ~capture_mode
  /\ Main("Start Capture", on_start_capture(Session), coord_value,
          uploaded, total_pages)
  /\ UNCHANGED << pvars, mvars >>

CancelCapture ==
  /\ capture_mode
  /\ Main("Cancel Capture", on_cancel_capture(Session), coord_value,
          uploaded, total_pages)
  /\ UNCHANGED << pvars, mvars >>

UseThisPoint ==
  /\ ~use_btn_disabled(Session)
  /\ Main("Use This Point", on_use_this_point(Session), coord_value,
          uploaded, total_pages)
  /\ UNCHANGED << pvars, mvars >>

\* a click on the preview image, which the component shows in capture mode
ClickImage ==
  /\ crosshair # None
  /\ \E pt \in ClickPoints :
       Main("click", Session, Some(pt), uploaded, total_pages)
  /\ UNCHANGED << pvars, mvars >>

Export ==
  /\ uploaded
  /\ Main("Export", Session, coord_value, uploaded, total_pages)
  /\ UNCHANGED << pvars, mvars >>

(* --------------------------- specifications ---------------------------- *)
Init == ParseIdle /\ MapIdle /\ UIInit

Next ==
  \/ Upload
  \/ Rerun
  \/ ApplySettings
  \/ UpdatePreview
  \/ StartCapture
  \/ CancelCapture
  \/ UseThisPoint
  \/ ClickImage
  \/ Export

Spec == Init /\ [][Next]_vars

InitParse == ParseInit /\ MapIdle /\ UIIdle

ParseNext == ParseCall

SpecParse == InitParse /\ [][ParseNext]_vars

MapNext ==
  \/ MapForward
  \/ MapInverse

InitMap == ParseIdle /\ MapInit /\ UIIdle

SpecMap == InitMap /\ [][MapNext]_vars

(* ----------------------- claims about parse_pages ---------------------- *)
\* text consists of whitespace only (or is empty)
OnlyWhitespace(text) == \A i \in 1..Len(text) : text[i] \in Whitespace

\* the list lo, lo+1, ..., hi (empty when lo > hi)
IsInterval(ret, lo, hi) ==
  /\ Len(ret) = (IF lo > hi THEN 0 ELSE hi - lo + 1)
  /\ \A i \in 1..Len(ret) : ret[i] = lo + i - 1

\* C1: for every text and every total >= 0 the list parse_pages returns is
\* strictly increasing (sorted, no duplicates) and every element idx of it
\* satisfies 0 <= idx < total.
C1_StrictlyIncreasingInRange ==
  ppc = "done" =>
    /\ \A i \in 1..Len(pout.ret) : 0 <= pout.ret[i] /\ pout.ret[i] < ptotal
    /\ \A i \in 1..(Len(pout.ret) - 1) : pout.ret[i] < pout.ret[i + 1]

\* a call on a text that names two pages out of order returned both, in
\* order
C1_Witness ==
  /\ ppc = "done"
  /\ ptext = << "2", ",", "1" >>
  /\ ptotal >= 2
  /\ pout.ret = << 0, 1 >>

\* C2: when text is empty or whitespace-only, parse_pages returns exactly
\* [0, 1, ..., total-1] (the empty list when total = 0).
C2_BlankSelectsAllPages ==
  (ppc = "done" /\ OnlyWhitespace(ptext)) =>
    /\ ~pout.exc
    /\ IsInterval(pout.ret, 0, ptotal - 1)

\* a call on a non-empty whitespace-only text with at least two pages
C2_Witness ==
  /\ ppc = "done"
  /\ ptext # <<>>
  /\ OnlyWhitespace(ptext)
  /\ ptotal >= 2
  /\ Len(pout.ret) = ptotal

\* text is one segment `a-b` whose two sides int() accepts
IsRangeSegment(text) ==
  /\ ~Contains(text, ",")
  /\ Contains(strip(text), "-")
  /\ int(split1(strip(text), "-")[1]).ok
  /\ int(split1(strip(text), "-")[2]).ok

\* C3: a range segment a-b with integer a and b: the pair is swapped when
\* a > b, then a is raised to at least 1 and b lowered to at most total; if
\* a > b after that the segment contributes nothing, otherwise it
\* contributes exactly the integers of [a, b], as indices a-1 .. b-1.
\* parse_pages("5-2", 10) = [1,2,3,4].
C3_RangeSwapClamp ==
  /\ parse_pages(<< "5", "-", "2" >>, 10).ret = << 1, 2, 3, 4 >>
  /\ (ppc = "done" /\ IsRangeSegment(ptext)) =>
       LET a == int(split1(strip(ptext), "-")[1]).val
           b == int(split1(strip(ptext), "-")[2]).val
           lo == Max2(1, Min2(a, b))
           hi == Min2(ptotal, Max2(a, b))
       IN IsInterval(pout.ret, lo - 1, hi - 1)

\* a call on the descending range "2-1" returned both pages
C3_Witness ==
  /\ ppc = "done"
  /\ ptext = << "2", "-", "1" >>
  /\ ptotal >= 2
  /\ pout.ret = << 0, 1 >>

\* a trimmed segment that is not empty and that int() rejects (as a single
\* number, or on either side of its first "-")
Malformed(rawpart) ==
  LET part == strip(rawpart)
  IN /\ part # <<>>
     /\ IF Contains(part, "-")
          THEN \/ ~int(split1(part, "-")[1]).ok
               \/ ~int(split1(part, "-")[2]).ok
          ELSE ~int(part).ok

RECURSIVE join(_, _)
join(parts, c) ==
  IF parts = <<>> THEN <<>>
  ELSE IF Len(parts) = 1 THEN parts[1]
  ELSE parts[1] \o << c >> \o join(Tail(parts), c)

NotMalformed(rawpart) == ~Malformed(rawpart)

\* text with its malformed segments taken out
RemoveMalformed(text) == join(SelectSeq(split(text, ","), NotMalformed), ",")

\* C4 as stated: parse_pages never raises, and its result equals the result
\* of parsing the same text with the malformed segments removed.
C4_Original ==
  ppc = "done" =>
    /\ ~pout.exc
    /\ pout.ret = parse_pages(RemoveMalformed(ptext), ptotal).ret

\* C4 (amended): parse_pages never raises; a malformed segment contributes
\* nothing and the well-formed segments before and after it are still
\* applied: the result equals the result of parsing the text with the
\* malformed segments removed whenever what is left is not empty or
\* whitespace-only, and is the empty list when the text is not blank but
\* what is left is. parse_pages("abc,2", 10) = [1].
C4_MalformedSkipped ==
  /\ parse_pages(<< "a", "b", "c", ",", "2" >>, 10) = [exc |-> FALSE, ret |-> << 1 >>]
  /\ ppc = "done" =>
       /\ ~pout.exc
       /\ IF OnlyWhitespace(RemoveMalformed(ptext)) /\ ~OnlyWhitespace(ptext)
            THEN pout.ret = <<>>
            ELSE pout.ret = parse_pages(RemoveMalformed(ptext), ptotal).ret

\* a call on a text with a malformed segment before a well-formed one
\* returned the page of the well-formed one
C4_Witness ==
  /\ ppc = "done"
  /\ ptext = << "a", ",", "2" >>
  /\ ptotal >= 2
  /\ pout.ret = << 1 >>

(* ------------------------ claims about the script ---------------------- *)
\* C5: whenever parse_pages returns an empty list for the stored page-range
\* text, the page selection used for preview and export is all pages
\* [0 .. total_pages-1], so it is non-empty whenever total_pages >= 1; it is
\* exactly the parsed list whenever that list is not empty.
C5_EmptySelectionFallsBack ==
  uploaded =>
    LET parsed == parse_pages(pages_str, total_pages).ret
    IN /\ parsed = <<>> => IsInterval(pages, 0, total_pages - 1)
       /\ parsed # <<>> => pages = parsed
       /\ total_pages >= 1 => pages # <<>>
       /\ run.rendered => last_preview[1].page = pages[1]
       /\ export # None => export[1].pages = pages

\* with only out-of-range pages named, a two-page document was rendered
\* and exported with both pages selected
C5_Witness ==
  /\ uploaded
  /\ pages_str = << "0", ",", "1", "1" >>
  /\ total_pages = 2
  /\ pages = << 0, 1 >>
  /\ last_preview # None
  /\ export # None

\* n is an integer nearest to p / zoom
NearestUnzoomed(n, p) ==
  LET d == ZoomDen * p - ZoomNum * n
  IN 2 * d <= ZoomNum /\ 2 * (0 - d) <= ZoomNum

C9_Original ==
  (run.rendered /\ run.replaced) =>
    run.btn \in {"Apply Settings", "Update Preview", "Use This Point"}

\* the session state a click on the image must leave alone
AllButClick == << x, y, stamp_text, font_size, pages_str, refresh_preview,
                  capture_mode, last_preview >>

NearestZoomed(n, v) ==
  LET d == ZoomDen * n - ZoomNum * v
  IN 2 * d <= ZoomDen /\ 2 * (0 - d) <= ZoomDen

\* C6: the forward mapping that places the crosshair gives
\* pixel_x = round(x * zoom) and pixel_y = round((y + font_size) * zoom),
\* the pixel nearest to the zoomed baseline anchor.
C6_Original ==
  mpc \in {"forward", "back"} =>
    /\ NearestZoomed(mpix[1][1], mx)
    /\ NearestZoomed(mpix[1][2], my + mfs)

Abs(n) == IF n >= 0 THEN n ELSE 0 - n

====
